---- MODULE Spec2Model ----
(***************************************************************************)
(* Model of pkg/pjsekaioverlay/chart.go: source detection by chart-id      *)
(* prefix, metadata fetch, level-data fetch and the two asset downloads.   *)
(* The network, the decoders and the filesystem are the environment: each  *)
(* call into them is a step whose outcome is chosen among the outcomes     *)
(* the call can have.                                                      *)
(***************************************************************************)
EXTENDS Integers, Sequences, FiniteSets, TLC

VARIABLES chartId, src, level, det, fc, ld, cv, bg, net, open, fs

vars == <<chartId, src, level, det, fc, ld, cv, bg, net, open, fs>>

(***************************************************************************)
(* Bounds                                                                  *)
(***************************************************************************)
MaxSuffix == 2      \* longest suffix appended to a prefix fragment
MaxBody == 2        \* longest background response body, in bytes

(***************************************************************************)
(* Strings                                                                 *)
(***************************************************************************)
HasPrefix(s, p) == Len(s) >= Len(p) /\ SubSeq(s, 1, Len(p)) = p

Alphabet == {"a", "-", "p"}

RECURSIVE StringsOfLen(_)
StringsOfLen(n) ==
    IF n = 0 THEN {""}
    ELSE {s \o c : s \in StringsOfLen(n - 1), c \in Alphabet}

StringsUpTo(n) == UNION {StringsOfLen(k) : k \in 0..n}

Prefixes(s) == {SubSeq(s, 1, k) : k \in 0..Len(s)}

(***************************************************************************)
(* Errors: the nil error, or the message of the error the code builds      *)
(* (its English part) with the formatted argument.                         *)
(***************************************************************************)
Nil == <<>>
Err(msg, arg) == <<msg, arg>>
NoArg == "-"

ErrUnknownSource == Err("unknown chart source", NoArg)
ErrChartConnect == Err("Could not connect to server.", NoArg)
ErrChartNotFound == Err("Unable to search chart.", NoArg)

(***************************************************************************)
(* Source                                                                  *)
(***************************************************************************)
ZeroSource == [Id |-> "", Name |-> "", Color |-> 0, Host |-> ""]

PotatoLeaves ==
    [Id |-> "potato_leaves", Name |-> "Potato Leaves",
     Color |-> 8964991, Host |-> "ptlv.sevenc7c.com"]

ChartCyanvas ==
    [Id |-> "chart_cyanvas", Name |-> "Chart Cyanvas",
     Color |-> 8637650, Host |-> "cc.sevenc7c.com"]

PtlvPrefix == "ptlv-"
ChcyPrefix == "chcy-"

UnknownSource(id) == [Id |-> id, Name |-> "", Color |-> 0, Host |-> ""]

\* A detection that never takes the second branch.
DetectedSourcePtlvOnly(id) ==
    IF HasPrefix(id, PtlvPrefix) THEN PotatoLeaves ELSE ZeroSource

\* The if / else-if chain: the source variable after it.
DetectedSource(id) ==
    IF HasPrefix(id, PtlvPrefix) THEN PotatoLeaves
    ELSE IF HasPrefix(id, ChcyPrefix) THEN ChartCyanvas
    ELSE ZeroSource

\* An unknown-source result that leaves the id empty.
UnknownResultEmptyId(id) == [source |-> UnknownSource(""), err |-> ErrUnknownSource]

UnknownResult(id) == [source |-> UnknownSource(id), err |-> ErrUnknownSource]

DetectChartSource(id) ==
    LET source == DetectedSource(id) IN
    IF source.Id = "" THEN UnknownResult(id)
    ELSE [source |-> source, err |-> Nil]

(***************************************************************************)
(* Chart identifiers tried: every fragment of a registered prefix and      *)
(* some near misses, followed by every short suffix, and the two           *)
(* identifiers of the documented scenario.                                 *)
(***************************************************************************)
PrefixFragments ==
    Prefixes(PtlvPrefix) \cup Prefixes(ChcyPrefix)
        \cup {"xyz-", "Ptlv-", "ptlv_", "chcy", "-ptlv-", "potato_leaves"}

ChartIds ==
    {p \o s : p \in PrefixFragments, s \in StringsUpTo(MaxSuffix)}
        \cup {"ptlv-abc123", "xyz-000"}

DetIdle == [pc |-> "call", source |-> ZeroSource, err |-> Nil]

(***************************************************************************)
(* LevelInfo: the three relative URLs the code reads from it               *)
(* (level.Data.Url, level.Cover.Url, level.UseBackground.Item.Image.Url).  *)
(***************************************************************************)
LevelFields == {"data", "cover", "background"}

ZeroLevelInfo == [f \in LevelFields |-> ""]

(***************************************************************************)
(* HTTP                                                                    *)
(***************************************************************************)
Statuses == {200, 204, 404, 500}

NoBody == [kind |-> "none"]
NoResp == [status |-> 0, body |-> NoBody]

TransportError == Err("dial tcp: connection refused", NoArg)

Scheme == "https://"

UrlHasHost(url) ==
    /\ HasPrefix(url, Scheme)
    /\ Len(url) > Len(Scheme)
    /\ SubSeq(url, Len(Scheme) + 1, Len(Scheme) + 1) # "/"

\* The outcomes of http.Get(url): a transport error, or a response.  A URL
\* without a host never gets a response.  The body of a response that is
\* not a 200 is never read by any caller, so one body stands for all.
HttpGet(url, bodies) ==
    LET failed == [err |-> TransportError, resp |-> NoResp] IN
    IF ~UrlHasHost(url) THEN {failed}
    ELSE {failed}
         \cup {[err |-> Nil, resp |-> [status |-> 200, body |-> b]] : b \in bodies}
         \cup {[err |-> Nil, resp |-> [status |-> s, body |-> NoBody]] :
                    s \in Statuses \ {200}}

Request(op, url) == [op |-> op, url |-> url]

Requests(op) == SelectSeq(net, LAMBDA r : r.op = op)

Body(op) == <<op, "body">>

\* What the deferred calls of a returning operation close.
Released(frame, op) == {<<op, r>> : r \in frame.defers}

(***************************************************************************)
(* JSON documents of the metadata endpoint: an envelope {item: {...}}      *)
(* whose text is well-formed or not, each member a string or a number.     *)
(***************************************************************************)
JStr(v) == [t |-> "str", v |-> v]
JNum == [t |-> "num", v |-> "5"]

JsonMembers(f) ==
    {JNum} \cup (CASE f = "data" -> {JStr("/d")}
                   [] f = "cover" -> {JStr("/c")}
                   [] OTHER -> {JStr("/b")})

ChartBodies ==
    {[kind |-> "json", syntax |-> ok, item |-> it] :
        ok \in BOOLEAN,
        it \in {m \in [LevelFields -> UNION {JsonMembers(f) : f \in LevelFields}] :
                    \A f \in LevelFields : m[f] \in JsonMembers(f)}}

\* json.NewDecoder(body).Decode(&chart): a text that is not well-formed
\* stores nothing; a member of the wrong type is skipped, the others are
\* stored, and the first such mismatch is the error.
DecodeInfoResponse(body, chart) ==
    IF body.kind # "json" THEN [val |-> chart, err |-> Err("EOF", NoArg)]
    ELSE IF ~body.syntax THEN [val |-> chart, err |-> Err("invalid character", NoArg)]
    ELSE [val |-> [f \in LevelFields |->
                      IF body.item[f].t = "str" THEN body.item[f].v ELSE chart[f]],
          err |-> IF \E f \in LevelFields : body.item[f].t # "str"
                  THEN Err("cannot unmarshal number", NoArg) ELSE Nil]

(***************************************************************************)
(* FetchChart                                                              *)
(***************************************************************************)
ChartUrl(source, id) == Scheme \o source.Host \o "/sonolus/levels/" \o id

\* A status check that accepts every 2xx status.
ChartStatusOkAny2xx(resp) == resp.status \in 200..299

ChartStatusOk(resp) == resp.status = 200

FcIdle ==
    [pc |-> "idle", url |-> "", resp |-> NoResp, chart |-> ZeroLevelInfo,
     ret |-> ZeroLevelInfo, err |-> Nil, defers |-> {}]

FetchChartGet ==
    /\ fc.pc = "start"
    /\ LET url == ChartUrl(src, chartId) IN
       \E out \in HttpGet(url, ChartBodies) :
          /\ net' = Append(net, Request("FetchChart", url))
          /\ IF out.err # Nil
             THEN /\ fc' = [fc EXCEPT !.pc = "done", !.url = url,
                                      !.ret = ZeroLevelInfo, !.err = ErrChartConnect]
                  /\ open' = open
             ELSE /\ fc' = [fc EXCEPT !.pc = "status", !.url = url,
                                      !.resp = out.resp, !.defers = {"body"}]
                  /\ open' = open \cup {Body("FetchChart")}
    /\ UNCHANGED <<chartId, src, level, det, ld, cv, bg, fs>>

FetchChartStatus ==
    /\ fc.pc = "status"
    /\ IF ~ChartStatusOk(fc.resp)
       THEN /\ fc' = [fc EXCEPT !.pc = "done", !.ret = ZeroLevelInfo,
                                !.err = ErrChartNotFound]
            /\ open' = open \ Released(fc, "FetchChart")
       ELSE /\ fc' = [fc EXCEPT !.pc = "decode"]
            /\ open' = open
    /\ UNCHANGED <<chartId, src, level, det, ld, cv, bg, net, fs>>

FetchChartDecode ==
    /\ fc.pc = "decode"
    /\ LET chart == DecodeInfoResponse(fc.resp.body, fc.chart).val IN
       fc' = [fc EXCEPT !.pc = "done", !.chart = chart, !.ret = chart, !.err = Nil]
    /\ open' = open \ Released(fc, "FetchChart")
    /\ UNCHANGED <<chartId, src, level, det, ld, cv, bg, net, fs>>

(***************************************************************************)
(* DetectChartSource as a step                                             *)
(***************************************************************************)
Detect ==
    /\ det.pc = "call"
    /\ LET r == DetectChartSource(chartId) IN
       det' = [pc |-> "ret", source |-> r.source, err |-> r.err]
    /\ UNCHANGED <<chartId, src, level, fc, ld, cv, bg, net, open, fs>>

(***************************************************************************)
(* sonolus.JoinUrl(base, rel): the relative reference resolved against     *)
(* the base.  A relative URL that does not parse is an error.              *)
(***************************************************************************)
MalformedUrl == "%zz"

UrlParseError == Err("invalid URL escape", NoArg)

JoinUrl(base, rel) ==
    IF rel = MalformedUrl THEN [url |-> "", err |-> UrlParseError]
    ELSE [url |-> base \o rel, err |-> Nil]

Base(source) == Scheme \o source.Host

(***************************************************************************)
(* LevelData, and the bodies of the level-data endpoint: a gzip header     *)
(* that is there or not, and a payload that is the JSON of a LevelData,    *)
(* a JSON with a member of the wrong type, a text that is no JSON, or a    *)
(* corrupt deflate stream.                                                 *)
(***************************************************************************)
ZeroLevelData == [entities |-> <<>>]

LevelDatas == {ZeroLevelData, [entities |-> <<"e1">>], [entities |-> <<"e1", "e2">>]}

Payloads == {"json", "mismatch", "not_json", "corrupt"}

LevelBodies ==
    {[kind |-> "gzip", header |-> h, payload |-> p, data |-> d] :
        h \in BOOLEAN, p \in Payloads, d \in LevelDatas}

\* gzip.NewReader(resp.Body) reads and checks the header.
GzipNewReader(body) ==
    IF body.kind # "gzip" THEN Err("EOF", NoArg)
    ELSE IF body.header THEN Nil ELSE Err("gzip: invalid header", NoArg)

\* json.NewDecoder(gzipReader).Decode(&data)
DecodeLevelData(body, data) ==
    CASE body.payload = "json" -> [val |-> body.data, err |-> Nil]
      [] body.payload = "mismatch" ->
            [val |-> body.data, err |-> Err("cannot unmarshal number", NoArg)]
      [] body.payload = "not_json" ->
            [val |-> data, err |-> Err("invalid character", NoArg)]
      [] OTHER -> [val |-> data, err |-> Err("flate: corrupt input", NoArg)]

ErrUrlParse(e) == Err("URL parsing failed.", e[1])
ErrLevelConnect(e) == Err("Could not connect to server.", e[1])
ErrLevelNotFound(status) == Err("No chart data found.", ToString(status))
ErrLevelLoad(e) == Err("Loading chart data failed.", e[1])

\* A status check that rejects only a 404.
LevelStatusOkNot404(resp) == resp.status # 404

LevelStatusOk(resp) == resp.status = 200

LdIdle ==
    [pc |-> "idle", url |-> "", resp |-> NoResp, data |-> ZeroLevelData,
     ret |-> ZeroLevelData, err |-> Nil, defers |-> {}, trace |-> <<>>]

Gzip(op) == <<op, "gzip">>

FetchLevelDataJoinUrl ==
    /\ ld.pc = "start"
    /\ LET j == JoinUrl(Base(src), level["data"]) IN
       IF j.err # Nil
       THEN ld' = [ld EXCEPT !.pc = "done", !.ret = ZeroLevelData,
                             !.err = ErrUrlParse(j.err), !.trace = Append(@, "url")]
       ELSE ld' = [ld EXCEPT !.pc = "get", !.url = j.url, !.trace = Append(@, "url")]
    /\ UNCHANGED <<chartId, src, level, det, fc, cv, bg, net, open, fs>>

FetchLevelDataGet ==
    /\ ld.pc = "get"
    /\ \E out \in HttpGet(ld.url, LevelBodies) :
          /\ net' = Append(net, Request("FetchLevelData", ld.url))
          /\ IF out.err # Nil
             THEN /\ ld' = [ld EXCEPT !.pc = "done", !.ret = ZeroLevelData,
                                      !.err = ErrLevelConnect(out.err),
                                      !.trace = Append(@, "get")]
                  /\ open' = open
             ELSE /\ ld' = [ld EXCEPT !.pc = "status", !.resp = out.resp,
                                      !.defers = {"body"}, !.trace = Append(@, "get")]
                  /\ open' = open \cup {Body("FetchLevelData")}
    /\ UNCHANGED <<chartId, src, level, det, fc, cv, bg, fs>>

FetchLevelDataStatus ==
    /\ ld.pc = "status"
    /\ IF ~LevelStatusOk(ld.resp)
       THEN /\ ld' = [ld EXCEPT !.pc = "done", !.ret = ZeroLevelData,
                                !.err = ErrLevelNotFound(ld.resp.status),
                                !.trace = Append(@, "status")]
            /\ open' = open \ Released(ld, "FetchLevelData")
       ELSE /\ ld' = [ld EXCEPT !.pc = "gzip", !.trace = Append(@, "status")]
            /\ open' = open
    /\ UNCHANGED <<chartId, src, level, det, fc, cv, bg, net, fs>>

FetchLevelDataGzip ==
    /\ ld.pc = "gzip"
    /\ LET e == GzipNewReader(ld.resp.body) IN
       IF e # Nil
       THEN /\ ld' = [ld EXCEPT !.pc = "done", !.ret = ZeroLevelData,
                                !.err = ErrLevelLoad(e), !.trace = Append(@, "gzip")]
            /\ open' = open \ Released(ld, "FetchLevelData")
       ELSE /\ ld' = [ld EXCEPT !.pc = "json", !.trace = Append(@, "gzip")]
            /\ open' = open \cup {Gzip("FetchLevelData")}
    /\ UNCHANGED <<chartId, src, level, det, fc, cv, bg, net, fs>>

FetchLevelDataDecode ==
    /\ ld.pc = "json"
    /\ LET d == DecodeLevelData(ld.resp.body, ld.data) IN
       IF d.err # Nil
       THEN ld' = [ld EXCEPT !.pc = "done", !.data = d.val, !.ret = ZeroLevelData,
                             !.err = ErrLevelLoad(d.err), !.trace = Append(@, "json")]
       ELSE ld' = [ld EXCEPT !.pc = "done", !.data = d.val, !.ret = d.val,
                             !.err = Nil, !.trace = Append(@, "json")]
    /\ open' = open \ Released(ld, "FetchLevelData")
    /\ UNCHANGED <<chartId, src, level, det, fc, cv, bg, net, fs>>

(***************************************************************************)
(* The destination directory and the two output files.  The content of a  *)
(* file is the sequence of what was written to it.                         *)
(***************************************************************************)
CoverFile == "cover.png"
BackgroundFile == "background.png"
FileNames == {CoverFile, BackgroundFile}

NoFile == [exists |-> FALSE, data |-> <<>>]
File(data) == [exists |-> TRUE, data |-> data]

\* os.MkdirAll(destPath, 0755): nothing to do when the directory is there;
\* otherwise it creates it, or fails.
MkdirAll(f) ==
    IF f.dir THEN {[fs |-> f, err |-> Nil]}
    ELSE {[fs |-> [f EXCEPT !.dir = TRUE], err |-> Nil],
          [fs |-> f, err |-> Err("mkdir: permission denied", NoArg)]}

\* os.Create(path.Join(destPath, name)): fails when the directory is
\* missing, may fail when it is there; creates or truncates the file.
Create(f, name) ==
    IF ~f.dir
    THEN {[fs |-> f, err |-> Err("open: no such file or directory", NoArg)]}
    ELSE {[fs |-> [f EXCEPT !.files[name] = File(<<>>)], err |-> Nil],
          [fs |-> f, err |-> Err("open: permission denied", NoArg)]}

\* Writing data to an open file: all of it, or a part of it and an error.
Write(f, name, data) ==
    {[fs |-> [f EXCEPT !.files[name] = File(@.data \o SubSeq(data, 1, n))],
      err |-> IF n = Len(data) THEN Nil ELSE Err("write: no space left on device", NoArg)] :
        n \in 0..Len(data)}

Handle(op) == <<op, "file">>

(***************************************************************************)
(* Images                                                                  *)
(***************************************************************************)
CoverSize == 512

ImageDims == {<<100, 50>>, <<1000, 1000>>, <<512, 512>>}

CoverBodies ==
    {[kind |-> "image", fmt |-> f, w |-> d[1], h |-> d[2]] :
        f \in {"png", "jpeg"}, d \in ImageDims}
        \cup {[kind |-> "image", fmt |-> "text", w |-> 0, h |-> 0]}

NoImage == [w |-> 0, h |-> 0, px |-> "none"]

\* image.Decode(resp.Body) with the png and jpeg decoders registered.
ImageDecode(body) ==
    IF body.kind = "image" /\ body.fmt \in {"png", "jpeg"}
    THEN [img |-> [w |-> body.w, h |-> body.h, px |-> body.fmt], err |-> Nil]
    ELSE [img |-> NoImage, err |-> Err("image: unknown format", NoArg)]

\* image.NewRGBA(image.Rect(0, 0, 512, 512))
NewRGBA == [w |-> CoverSize, h |-> CoverSize, px |-> "transparent"]

\* A scaling that hands back the source image.
ScaleKeepsSource(dst, source) == source

\* draw.ApproxBiLinear.Scale(dst, dst.Bounds(), src, src.Bounds(), draw.Over, nil)
\* fills the pixels of dst from src; the bounds of dst stay.
Scale(dst, source) == [dst EXCEPT !.px = "scaled " \o source.px]

Chunk(name, w, h) == [chunk |-> name, w |-> w, h |-> h]

\* png.Encode: signature, header with the bounds, pixel data, end.
PngEncode(img) ==
    <<Chunk("signature", 0, 0), Chunk("IHDR", img.w, img.h),
      Chunk("IDAT", 0, 0), Chunk("IEND", 0, 0)>>

IsPng(f, w, h) ==
    /\ f.exists
    /\ Len(f.data) = 4
    /\ f.data[1].chunk = "signature"
    /\ f.data[2] = Chunk("IHDR", w, h)
    /\ f.data[3].chunk = "IDAT"
    /\ f.data[4].chunk = "IEND"

(***************************************************************************)
(* DownloadCover                                                           *)
(***************************************************************************)
ErrCoverConnect(e) == Err("Could not connect to server (transport)", e[1])
ErrCoverStatus(status) == Err("Could not connect to server.", ToString(status))
ErrCoverLoad(e) == Err("Loading jacket failed.", e[1])
ErrCreate(e) == Err("Failed to create file.", e[1])
ErrWrite(e) == Err("Failed to write file.", e[1])

\* A status check that lets every status through.
CoverStatusOkAlways(resp) == TRUE

CoverStatusOk(resp) == resp.status = 200

CvIdle ==
    [pc |-> "idle", url |-> "", resp |-> NoResp, imageData |-> NoImage,
     newImage |-> NoImage, mkdirErr |-> Nil, ret |-> Nil, defers |-> {}]

DownloadCoverJoinUrl ==
    /\ cv.pc = "start"
    /\ LET j == JoinUrl(Base(src), level["cover"]) IN
       IF j.err # Nil
       THEN cv' = [cv EXCEPT !.pc = "done", !.ret = ErrUrlParse(j.err)]
       ELSE cv' = [cv EXCEPT !.pc = "get", !.url = j.url]
    /\ UNCHANGED <<chartId, src, level, det, fc, ld, bg, net, open, fs>>

DownloadCoverGet ==
    /\ cv.pc = "get"
    /\ \E out \in HttpGet(cv.url, CoverBodies) :
          /\ net' = Append(net, Request("DownloadCover", cv.url))
          /\ IF out.err # Nil
             THEN /\ cv' = [cv EXCEPT !.pc = "done", !.ret = ErrCoverConnect(out.err)]
                  /\ open' = open
             ELSE /\ cv' = [cv EXCEPT !.pc = "status", !.resp = out.resp,
                                      !.defers = {"body"}]
                  /\ open' = open \cup {Body("DownloadCover")}
    /\ UNCHANGED <<chartId, src, level, det, fc, ld, bg, fs>>

DownloadCoverStatus ==
    /\ cv.pc = "status"
    /\ IF ~CoverStatusOk(cv.resp)
       THEN /\ cv' = [cv EXCEPT !.pc = "done", !.ret = ErrCoverStatus(cv.resp.status)]
            /\ open' = open \ Released(cv, "DownloadCover")
       ELSE /\ cv' = [cv EXCEPT !.pc = "mkdir"]
            /\ open' = open
    /\ UNCHANGED <<chartId, src, level, det, fc, ld, bg, net, fs>>

DownloadCoverMkdir ==
    /\ cv.pc = "mkdir"
    /\ \E m \in MkdirAll(fs) :
          /\ fs' = m.fs
          /\ cv' = [cv EXCEPT !.pc = "decode", !.mkdirErr = m.err]
    /\ UNCHANGED <<chartId, src, level, det, fc, ld, bg, net, open>>

DownloadCoverDecode ==
    /\ cv.pc = "decode"
    /\ LET d == ImageDecode(cv.resp.body) IN
       IF d.err # Nil
       THEN /\ cv' = [cv EXCEPT !.pc = "done", !.ret = ErrCoverLoad(d.err)]
            /\ open' = open \ Released(cv, "DownloadCover")
       ELSE /\ cv' = [cv EXCEPT !.pc = "scale", !.imageData = d.img]
            /\ open' = open
    /\ UNCHANGED <<chartId, src, level, det, fc, ld, bg, net, fs>>

DownloadCoverScale ==
    /\ cv.pc = "scale"
    /\ cv' = [cv EXCEPT !.pc = "create", !.newImage = Scale(NewRGBA, cv.imageData)]
    /\ UNCHANGED <<chartId, src, level, det, fc, ld, bg, net, open, fs>>

DownloadCoverCreate ==
    /\ cv.pc = "create"
    /\ \E c \in Create(fs, CoverFile) :
          /\ fs' = c.fs
          /\ IF c.err # Nil
             THEN /\ cv' = [cv EXCEPT !.pc = "done", !.ret = ErrCreate(c.err)]
                  /\ open' = open \ Released(cv, "DownloadCover")
             ELSE /\ cv' = [cv EXCEPT !.pc = "encode", !.defers = @ \cup {"file"}]
                  /\ open' = open \cup {Handle("DownloadCover")}
    /\ UNCHANGED <<chartId, src, level, det, fc, ld, bg, net>>

DownloadCoverEncode ==
    /\ cv.pc = "encode"
    /\ \E w \in Write(fs, CoverFile, PngEncode(cv.newImage)) :
          /\ fs' = w.fs
          /\ cv' = [cv EXCEPT !.pc = "done",
                              !.ret = IF w.err # Nil THEN ErrWrite(w.err) ELSE Nil]
    /\ open' = open \ Released(cv, "DownloadCover")
    /\ UNCHANGED <<chartId, src, level, det, fc, ld, bg, net>>

(***************************************************************************)
(* DownloadBackground                                                      *)
(***************************************************************************)
Bytes == {7, 9}

RECURSIVE BytesOfLen(_)
BytesOfLen(n) ==
    IF n = 0 THEN {<<>>}
    ELSE {Append(b, x) : b \in BytesOfLen(n - 1), x \in Bytes}

BackgroundBodies ==
    {[kind |-> "bytes", bytes |-> b] : b \in UNION {BytesOfLen(n) : n \in 0..MaxBody}}

BodyBytes(body) == IF body.kind = "bytes" THEN body.bytes ELSE <<>>

ErrBackgroundConnect(e) == Err("Could not connect to server.", e[1])
ErrBackgroundNotFound(status) == Err("Background not found.", ToString(status))

\* A status check that lets every status through.
BackgroundStatusOkAlways(resp) == TRUE

BackgroundStatusOk(resp) == resp.status = 200

\* err is the function's err variable, ret what it returns.
BgIdle ==
    [pc |-> "idle", url |-> "", resp |-> NoResp, err |-> Nil, ret |-> Nil,
     defers |-> {}]

DownloadBackgroundJoinUrl ==
    /\ bg.pc = "start"
    /\ LET j == JoinUrl(Base(src), level["background"]) IN
       bg' = [bg EXCEPT !.pc = "get", !.url = j.url, !.err = j.err]
    /\ UNCHANGED <<chartId, src, level, det, fc, ld, cv, net, open, fs>>

DownloadBackgroundGet ==
    /\ bg.pc = "get"
    /\ \E out \in HttpGet(bg.url, BackgroundBodies) :
          /\ net' = Append(net, Request("DownloadBackground", bg.url))
          /\ IF out.err # Nil
             THEN /\ bg' = [bg EXCEPT !.pc = "done", !.err = out.err,
                                      !.ret = ErrBackgroundConnect(out.err)]
                  /\ open' = open
             ELSE /\ bg' = [bg EXCEPT !.pc = "status", !.err = out.err,
                                      !.resp = out.resp, !.defers = {"body"}]
                  /\ open' = open \cup {Body("DownloadBackground")}
    /\ UNCHANGED <<chartId, src, level, det, fc, ld, cv, fs>>

DownloadBackgroundStatus ==
    /\ bg.pc = "status"
    /\ IF ~BackgroundStatusOk(bg.resp)
       THEN /\ bg' = [bg EXCEPT !.pc = "done",
                                !.ret = ErrBackgroundNotFound(bg.resp.status)]
            /\ open' = open \ Released(bg, "DownloadBackground")
       ELSE /\ bg' = [bg EXCEPT !.pc = "create"]
            /\ open' = open
    /\ UNCHANGED <<chartId, src, level, det, fc, ld, cv, net, fs>>

DownloadBackgroundCreate ==
    /\ bg.pc = "create"
    /\ \E c \in Create(fs, BackgroundFile) :
          /\ fs' = c.fs
          /\ IF c.err # Nil
             THEN /\ bg' = [bg EXCEPT !.pc = "done", !.err = c.err,
                                      !.ret = ErrCreate(c.err)]
                  /\ open' = open \ Released(bg, "DownloadBackground")
             ELSE /\ bg' = [bg EXCEPT !.pc = "copy", !.err = c.err,
                                      !.defers = @ \cup {"file"}]
                  /\ open' = open \cup {Handle("DownloadBackground")}
    /\ UNCHANGED <<chartId, src, level, det, fc, ld, cv, net>>

\* io.Copy(file, resp.Body): its results are dropped, and the check after
\* it reads err, which still holds the result of os.Create.
DownloadBackgroundCopy ==
    /\ bg.pc = "copy"
    /\ \E w \in Write(fs, BackgroundFile, BodyBytes(bg.resp.body)) :
          fs' = w.fs
    /\ bg' = [bg EXCEPT !.pc = "done",
                        !.ret = IF bg.err # Nil THEN ErrWrite(bg.err) ELSE Nil]
    /\ open' = open \ Released(bg, "DownloadBackground")
    /\ UNCHANGED <<chartId, src, level, det, fc, ld, cv, net>>

(***************************************************************************)
(* Specifications.  Each starts one kind of call on inputs drawn from a    *)
(* small set, the other operations idle.                                   *)
(***************************************************************************)
FetchSources == {PotatoLeaves, ChartCyanvas, UnknownSource("xyz-000")}

FetchChartIds == {"ptlv-abc123", "chcy-a", "xyz-000"}

Levels ==
    {[data |-> d, cover |-> c, background |-> b] :
        d \in {"/d", MalformedUrl}, c \in {"/c", MalformedUrl}, b \in {"/b", MalformedUrl}}

OldCover == File(PngEncode([w |-> 64, h |-> 64, px |-> "old"]))
OldBackground == File(<<1>>)

InitialFs ==
    {[dir |-> FALSE, files |-> [n \in FileNames |-> NoFile]]}
        \cup {[dir |-> TRUE, files |-> [n \in FileNames |->
                    IF n = CoverFile THEN c ELSE b]] :
                c \in {NoFile, OldCover}, b \in {NoFile, OldBackground}}

EmptyFs == [dir |-> FALSE, files |-> [n \in FileNames |-> NoFile]]

\* DetectChartSource alone.
InitDetect ==
    /\ chartId \in ChartIds
    /\ src = ZeroSource /\ level = ZeroLevelInfo
    /\ det = DetIdle
    /\ fc = FcIdle /\ ld = LdIdle /\ cv = CvIdle /\ bg = BgIdle
    /\ net = <<>> /\ open = {} /\ fs = EmptyFs

NextDetect == Detect

SpecDetect == InitDetect /\ [][NextDetect]_vars

\* FetchChart alone.
InitChart ==
    /\ chartId \in FetchChartIds
    /\ src \in FetchSources /\ level = ZeroLevelInfo
    /\ det = [DetIdle EXCEPT !.pc = "idle"]
    /\ fc = [FcIdle EXCEPT !.pc = "start"]
    /\ ld = LdIdle /\ cv = CvIdle /\ bg = BgIdle
    /\ net = <<>> /\ open = {} /\ fs = EmptyFs

NextChart == FetchChartGet \/ FetchChartStatus \/ FetchChartDecode

SpecChart == InitChart /\ [][NextChart]_vars

\* FetchLevelData alone.
InitLevel ==
    /\ chartId = ""
    /\ src \in FetchSources /\ level \in Levels
    /\ det = [DetIdle EXCEPT !.pc = "idle"]
    /\ fc = FcIdle
    /\ ld = [LdIdle EXCEPT !.pc = "start"]
    /\ cv = CvIdle /\ bg = BgIdle
    /\ net = <<>> /\ open = {} /\ fs = EmptyFs

NextLevel ==
    \/ FetchLevelDataJoinUrl
    \/ FetchLevelDataGet
    \/ FetchLevelDataStatus
    \/ FetchLevelDataGzip
    \/ FetchLevelDataDecode

SpecLevel == InitLevel /\ [][NextLevel]_vars

\* DownloadCover and DownloadBackground called on the same source, level
\* and destination directory, their steps interleaved in every way.
AssetSources == {PotatoLeaves, UnknownSource("xyz-000")}

InitAssets ==
    /\ chartId = ""
    /\ src \in AssetSources
    /\ level \in {l \in Levels : l["data"] = "/d"}
    /\ det = [DetIdle EXCEPT !.pc = "idle"]
    /\ fc = FcIdle /\ ld = LdIdle
    /\ cv = [CvIdle EXCEPT !.pc = "start"]
    /\ bg = [BgIdle EXCEPT !.pc = "start"]
    /\ net = <<>> /\ open = {}
    /\ fs \in InitialFs

NextAssets ==
    \/ DownloadCoverJoinUrl
    \/ DownloadCoverGet
    \/ DownloadCoverStatus
    \/ DownloadCoverMkdir
    \/ DownloadCoverDecode
    \/ DownloadCoverScale
    \/ DownloadCoverCreate
    \/ DownloadCoverEncode
    \/ DownloadBackgroundJoinUrl
    \/ DownloadBackgroundGet
    \/ DownloadBackgroundStatus
    \/ DownloadBackgroundCreate
    \/ DownloadBackgroundCopy

SpecAssets == InitAssets /\ [][NextAssets]_vars

(***************************************************************************)
(* Properties of DetectChartSource (SpecDetect)                            *)
(***************************************************************************)
Registered(id) == HasPrefix(id, "ptlv-") \/ HasPrefix(id, "chcy-")

\* C1: a chart id with a registered prefix ("ptlv-" first, then "chcy-")
\* resolves with a nil error to the registered source, its id the entry's
\* and its host non-empty; any other chart id resolves to the "unknown
\* source" error and a source whose id is the chart id and whose name and
\* host are empty.
C1_DetectByPrefix ==
    det.pc = "ret" =>
        /\ HasPrefix(chartId, "ptlv-") =>
              /\ det.err = Nil
              /\ det.source.Id = "potato_leaves"
              /\ det.source.Host = "ptlv.sevenc7c.com"
        /\ (~HasPrefix(chartId, "ptlv-") /\ HasPrefix(chartId, "chcy-")) =>
              /\ det.err = Nil
              /\ det.source.Id = "chart_cyanvas"
              /\ det.source.Host = "cc.sevenc7c.com"
        /\ Registered(chartId) => det.source.Host # ""
        /\ ~Registered(chartId) =>
              /\ det.err # Nil
              /\ det.err[1] = "unknown chart source"
              /\ det.source.Id = chartId
              /\ det.source.Name = ""
              /\ det.source.Host = ""

C1_Witness ==
    /\ det.pc = "ret"
    /\ chartId = "ptlv-abc123"
    /\ det.source.Id = "potato_leaves"
    /\ det.source.Host = "ptlv.sevenc7c.com"

\* C2 as stated: a chart id with no registered prefix resolves to a source
\* with an empty id and an empty host.
C2_UnknownHasEmptyId ==
    (det.pc = "ret" /\ ~Registered(chartId)) =>
        (det.source.Id = "" /\ det.source.Host = "")

\* C2 as amended: a chart id with no registered prefix resolves to a
\* source with an empty host whose id is the chart id itself, so the id is
\* empty only for the empty chart id.
C2_UnknownCarriesChartId ==
    (det.pc = "ret" /\ ~Registered(chartId)) =>
        /\ det.source.Host = ""
        /\ det.source.Id = chartId
        /\ (det.source.Id = "" <=> chartId = "")

C2_Witness ==
    /\ det.pc = "ret"
    /\ chartId = "xyz-000"
    /\ det.err # Nil
    /\ det.source.Id = "xyz-000"
    /\ det.source.Host = ""

(***************************************************************************)
(* Properties of FetchChart (SpecChart)                                    *)
(***************************************************************************)
ChartGetOnce ==
    /\ Len(Requests("FetchChart")) = 1
    /\ Requests("FetchChart")[1].url =
           "https://" \o src.Host \o "/sonolus/levels/" \o chartId

ChartFailures ==
    /\ fc.resp.status = 0 =>
          /\ fc.err = <<"Could not connect to server.", NoArg>>
          /\ fc.ret = ZeroLevelInfo
    /\ fc.resp.status \notin {0, 200} =>
          /\ fc.err = <<"Unable to search chart.", NoArg>>
          /\ fc.err # <<"Could not connect to server.", NoArg>>
          /\ fc.ret = ZeroLevelInfo

WellFormed(body) == body.syntax

WellTyped(body) == \A f \in LevelFields : body.item[f].t = "str"

\* C3 as stated: one GET to https://{host}/sonolus/levels/{chartId}; a
\* transport failure gives the connectivity error, a status other than 200
\* the distinct not-found error, both with a zero LevelInfo; a 200 gives a
\* nil error and the decoded item, and the zero item when the body fails
\* to decode.
C3_DecodeFailureGivesZero ==
    fc.pc = "done" =>
        /\ ChartGetOnce
        /\ ChartFailures
        /\ fc.resp.status = 200 =>
              /\ fc.err = Nil
              /\ (WellFormed(fc.resp.body) /\ WellTyped(fc.resp.body)) =>
                    \A f \in LevelFields : fc.ret[f] = fc.resp.body.item[f].v
              /\ ~(WellFormed(fc.resp.body) /\ WellTyped(fc.resp.body)) =>
                    fc.ret = ZeroLevelInfo

\* C3 as amended: as stated, except that on a 200 whose body fails to
\* decode the item is returned as the decoder left it: zero when the body
\* is not well-formed JSON, and, when it is well-formed with members of the
\* wrong type, filled from the members of the right type and zero in the
\* others.
C3_DecodeFailureGivesPartial ==
    fc.pc = "done" =>
        /\ ChartGetOnce
        /\ ChartFailures
        /\ fc.resp.status = 200 =>
              /\ fc.err = Nil
              /\ ~WellFormed(fc.resp.body) => fc.ret = ZeroLevelInfo
              /\ WellFormed(fc.resp.body) =>
                    \A f \in LevelFields :
                        fc.ret[f] = IF fc.resp.body.item[f].t = "str"
                                    THEN fc.resp.body.item[f].v ELSE ""

C3_Witness ==
    /\ fc.pc = "done"
    /\ fc.resp.status = 200
    /\ WellFormed(fc.resp.body)
    /\ ~WellTyped(fc.resp.body)
    /\ fc.err = Nil
    /\ fc.ret # ZeroLevelInfo

(***************************************************************************)
(* Properties of FetchLevelData (SpecLevel)                                *)
(***************************************************************************)
StepOrder == <<"url", "get", "status", "gzip", "json">>

\* C7: the steps run in the order URL resolution, GET, status check, gzip
\* open, JSON decode; the first failing step ends the call with its error
\* and a zero LevelData, no later step run; a malformed URL fails before
\* any request, a 200 body that is not gzip fails with the loading error,
\* and the error is nil only when all five steps succeeded.
C7_StepsInOrder ==
    /\ ld.trace = SubSeq(StepOrder, 1, Len(ld.trace))
    /\ Len(Requests("FetchLevelData")) = (IF Len(ld.trace) >= 2 THEN 1 ELSE 0)
    /\ (Gzip("FetchLevelData") \in open) => Len(ld.trace) >= 4
    /\ ld.pc = "done" =>
          /\ ld.err # Nil => ld.ret = ZeroLevelData
          /\ level["data"] = MalformedUrl =>
                /\ ld.trace = <<"url">>
                /\ ld.err # Nil /\ ld.err[1] = "URL parsing failed."
                /\ net = <<>>
          /\ (Len(ld.trace) >= 2 /\ ld.resp.status = 0) =>
                /\ ld.trace = <<"url", "get">>
                /\ ld.err # Nil /\ ld.err[1] = "Could not connect to server."
          /\ ld.resp.status \notin {0, 200} =>
                /\ ld.trace = <<"url", "get", "status">>
                /\ ld.err = <<"No chart data found.", ToString(ld.resp.status)>>
          /\ (ld.resp.status = 200 /\ ~ld.resp.body.header) =>
                /\ ld.trace = <<"url", "get", "status", "gzip">>
                /\ ld.err # Nil /\ ld.err[1] = "Loading chart data failed."
          /\ (ld.resp.status = 200 /\ ld.resp.body.header
                    /\ ld.resp.body.payload # "json") =>
                /\ ld.trace = StepOrder
                /\ ld.err # Nil /\ ld.err[1] = "Loading chart data failed."
          /\ ld.err = Nil =>
                /\ ld.trace = StepOrder
                /\ level["data"] # MalformedUrl
                /\ ld.resp.status = 200
                /\ ld.resp.body.header
                /\ ld.resp.body.payload = "json"
                /\ ld.ret = ld.resp.body.data

C7_Witness ==
    /\ ld.pc = "done"
    /\ ld.resp.status = 200
    /\ ~ld.resp.body.header
    /\ ld.err # Nil
    /\ ld.err[1] = "Loading chart data failed."
    /\ ld.ret = ZeroLevelData

OpenOf(op) == {r \in open : r[1] = op}

\* C10: when an operation has returned, by whatever path, nothing it
\* acquired is still open: not the response body, not the gzip stream of
\* FetchLevelData, not the output file of the asset operations.
C10_AllReleased ==
    /\ fc.pc = "done" => OpenOf("FetchChart") = {}
    /\ ld.pc = "done" => OpenOf("FetchLevelData") = {}
    /\ cv.pc = "done" => OpenOf("DownloadCover") = {}
    /\ bg.pc = "done" => OpenOf("DownloadBackground") = {}

(***************************************************************************)
(* Properties of the asset operations (SpecAssets)                         *)
(***************************************************************************)
Issued(op) == Len(Requests(op)) > 0

\* C4: when the GET of DownloadCover or DownloadBackground fails in
\* transport or is answered with a status other than 200, the operation
\* returns an error, and none of its steps creates, truncates or writes a
\* file or changes the directory.
C4_FailedGetTouchesNothing ==
    /\ [](/\ (cv.pc = "done" /\ Issued("DownloadCover") /\ cv.resp.status # 200)
                => cv.ret # Nil
          /\ (bg.pc = "done" /\ Issued("DownloadBackground") /\ bg.resp.status # 200)
                => bg.ret # Nil)
    /\ [][/\ (cv' # cv /\ Issued("DownloadCover")' /\ cv'.resp.status # 200)
                => fs' = fs
          /\ (bg' # bg /\ Issued("DownloadBackground")' /\ bg'.resp.status # 200)
                => fs' = fs]_vars

C4_Witness ==
    /\ cv.pc = "done"
    /\ Issued("DownloadCover")
    /\ cv.resp.status = 404
    /\ cv.ret # Nil
    /\ ~fs.dir
    /\ fs.files[CoverFile] = NoFile

\* C5: when DownloadBackground returns a nil error, background.png holds
\* the whole response body, byte for byte; a copy that stops part-way is
\* an error.
C5_BackgroundIsBody ==
    (bg.pc = "done" /\ bg.ret = Nil) =>
        fs.files[BackgroundFile] = File(BodyBytes(bg.resp.body))

\* C6: when DownloadCover returns a nil error, cover.png holds a complete
\* PNG of 512x512 pixels, whatever the width and height of the input.
C6_CoverIs512 ==
    (cv.pc = "done" /\ cv.ret = Nil) => IsPng(fs.files[CoverFile], 512, 512)

C6_Witness ==
    /\ cv.pc = "done"
    /\ cv.ret = Nil
    /\ cv.imageData.w = 100
    /\ cv.imageData.h = 50
    /\ IsPng(fs.files[CoverFile], 512, 512)

\* C8: each asset operation has made sure the destination directory is
\* there by the time it creates its output file.
C8_DirectoryBeforeCreate ==
    /\ (cv.pc = "create" /\ cv.mkdirErr = Nil) => fs.dir
    /\ bg.pc = "create" => fs.dir

MissingDirectory == <<"Failed to create file.", "open: no such file or directory">>

\* C9: the outcome of each asset operation is the same in every order and
\* interleaving.  Run after a DownloadCover that succeeds, DownloadBackground
\* finds the directory; so in no interleaving in which DownloadCover
\* succeeds does DownloadBackground fail for want of the directory.
C9_SameOutcomeInAnyOrder ==
    (cv.pc = "done" /\ cv.ret = Nil /\ bg.pc = "done") => bg.ret # MissingDirectory
====
